---------------------------- MODULE Spec2Model ----------------------------
(* A model of co2meter: the CO2monitor device session, the sample         *)
(* aggregator, the monitoring thread of co2meter.py and the monitoring    *)
(* loop of server.py.                                                     *)
EXTENDS Integers, Sequences, FiniteSets, TLC

(**************************************************************************)
(* Optional values: Python's None and a present value.                    *)
(**************************************************************************)
None == <<>>
Some(v) == <<v>>

(**************************************************************************)
(* Program constants (co2meter.py).                                       *)
(**************************************************************************)
CODE_END_MESSAGE == 13
CODE_CO2 == 80
CODE_TEMPERATURE == 66
\* _CO2MON_MAGIC_WORD = b'Htemp99e'
CO2MON_MAGIC_WORD == <<72, 116, 101, 109, 112, 57, 57, 101>>
CO2MON_MAGIC_TABLE == <<0, 0, 0, 0, 0, 0, 0, 0>>
\* self._interval = 10 in __init__
InitInterval == 10
\* start_monitoring(interval=5)
DefaultInterval == 5

(**************************************************************************)
(* Bounds of the model.                                                   *)
(**************************************************************************)
\* largest max_requests tried on the aggregator
MaxReq == 3
\* operations a sequential caller of the device session performs
MaxCalls == 5
\* operations the foreground threads start
MaxOps == 2
\* samples kept in CO2monitor._data
MaxData == 2
\* iterations of server.monitoring_CO2
MaxIter == 3
\* devices hid.enumerate returns
MaxDev == 3

(**************************************************************************)
(* Byte arithmetic.                                                       *)
(**************************************************************************)
RECURSIVE XorBits(_, _, _)
XorBits(a, b, n) ==
    IF n = 0 THEN 0
    ELSE (((a % 2) + (b % 2)) % 2) + 2 * XorBits(a \div 2, b \div 2, n - 1)

\* ((w << 4) & 0xFF) | (w >> 4)
NibbleSwap(w) == ((w * 16) % 256) + (w \div 16)

\* self._magic_word
MagicWord == [i \in 1..8 |-> NibbleSwap(CO2MON_MAGIC_WORD[i])]

\* the index list [2, 4, 0, 7, 1, 6, 5, 3] of _decrypt, 1-based
DecryptOrder == <<3, 5, 1, 8, 2, 7, 6, 4>>

\* mutant: a shift instead of a rotation, the 3 low bits are lost
ShiftRight3(b) ==
    [i \in 1..8 |->
        (b[i] \div 8) + (IF i = 1 THEN 0 ELSE 32 * (b[i - 1] % 8))]

\* (res >> 3) | ((res << 61) & 0xFFFFFFFFFFFFFFFF) on the eight bytes of res,
\* most significant first: byte i takes its 5 high bits from byte i and its
\* 3 low bits from the byte before it (the last byte wraps to the first).
RotateRight3(b) ==
    [i \in 1..8 |->
        (b[i] \div 8) + (32 * (b[IF i = 1 THEN 8 ELSE i - 1] % 8))]

\* CO2monitor._decrypt with bypass_decrypt false
DecryptFull(message) ==
    LET msg == [i \in 1..8 |-> message[DecryptOrder[i]]]
        res == [i \in 1..8 |-> XorBits(msg[i], CO2MON_MAGIC_TABLE[i], 8)]
        rot == RotateRight3(res)
    IN  [i \in 1..8 |-> (rot[i] - MagicWord[i] + 256) % 256]

\* mutant: bypass_decrypt is ignored
DecryptIgnoreBypass(bypass, message) == DecryptFull(message)

\* CO2monitor._decrypt
Decrypt(bypass, message) ==
    IF bypass THEN message ELSE DecryptFull(message)

\* mutant: the value stays in Kelvin
ConvertTemperatureKelvin(val) == val * 625

\* convert_temperature, in units of 1/10000 degree Celsius
ConvertTemperature(val) == val * 625 - 2731500

\* mutant: the checksum is not checked
DecodeMessageNoSumCheck(msg) ==
    LET bad_msg == \/ (msg[6] # 0) \/ (msg[7] # 0) \/ (msg[8] # 0)
                   \/ msg[5] # CODE_END_MESSAGE
        value == msg[2] * 256 + msg[3]
    IN  IF bad_msg THEN <<None, None>>
        ELSE IF msg[1] = CODE_CO2 THEN <<Some(value), None>>
        ELSE IF msg[1] = CODE_TEMPERATURE
             THEN <<None, Some(ConvertTemperature(value))>>
        ELSE <<None, None>>

\* mutant: the two value bytes are taken in the wrong order
DecodeMessageSwapped(msg) ==
    LET bad_msg == \/ (msg[6] # 0) \/ (msg[7] # 0) \/ (msg[8] # 0)
                   \/ msg[5] # CODE_END_MESSAGE
                   \/ ((msg[1] + msg[2] + msg[3]) % 256) # msg[4]
        value == msg[3] * 256 + msg[2]
    IN  IF bad_msg THEN <<None, None>>
        ELSE IF msg[1] = CODE_CO2 THEN <<Some(value), None>>
        ELSE IF msg[1] = CODE_TEMPERATURE
             THEN <<None, Some(ConvertTemperature(value))>>
        ELSE <<None, None>>

\* mutant: the end marker is not checked
DecodeMessageNoEndCheck(msg) ==
    LET bad_msg == \/ (msg[6] # 0) \/ (msg[7] # 0) \/ (msg[8] # 0)
                   \/ ((msg[1] + msg[2] + msg[3]) % 256) # msg[4]
        value == msg[2] * 256 + msg[3]
    IN  IF bad_msg THEN <<None, None>>
        ELSE IF msg[1] = CODE_CO2 THEN <<Some(value), None>>
        ELSE IF msg[1] = CODE_TEMPERATURE
             THEN <<None, Some(ConvertTemperature(value))>>
        ELSE <<None, None>>

\* CO2monitor.decode_message: <<co2, temp>>
DecodeMessage(msg) ==
    LET bad_msg == \/ (msg[6] # 0) \/ (msg[7] # 0) \/ (msg[8] # 0)
                   \/ msg[5] # CODE_END_MESSAGE
                   \/ ((msg[1] + msg[2] + msg[3]) % 256) # msg[4]
        value == msg[2] * 256 + msg[3]
    IN  IF bad_msg THEN <<None, None>>
        ELSE IF msg[1] = CODE_CO2 THEN <<Some(value), None>>
        ELSE IF msg[1] = CODE_TEMPERATURE
             THEN <<None, Some(ConvertTemperature(value))>>
        ELSE <<None, None>>

\* CO2monitor.hid_read applied to the raw frame the handle returned
HidRead(bypass, raw) == Decrypt(bypass, raw)

(**************************************************************************)
(* Frames a device can send: plaintext records and their encrypted form.  *)
(**************************************************************************)
\* CO2 = 400 ppm, plaintext and encrypted
FrameCO2Plain == <<80, 1, 144, 225, 13, 0, 0, 0>>
FrameCO2Enc == <<53, 164, 162, 182, 71, 154, 156, 184>>
\* CO2 = 0 ppm, encrypted
FrameCO2ZeroEnc == <<177, 164, 162, 182, 58, 154, 156, 48>>
\* temperature, raw value 4693, plaintext and encrypted
FrameTempPlain == <<66, 18, 85, 169, 13, 0, 0, 0>>
FrameTempEnc == <<91, 164, 50, 182, 205, 154, 156, 248>>
\* unknown code 0x41, encrypted
FrameUnknownEnc == <<176, 164, 42, 182, 58, 154, 156, 184>>
\* wrong checksum, encrypted
FrameBadSumEnc == <<54, 164, 162, 182, 71, 154, 156, 176>>
\* temperature, raw value 4689, encrypted
FrameTemp2Enc == <<59, 164, 50, 182, 205, 154, 156, 216>>
\* CO2 = 400 ppm with end marker 0x0A, encrypted
FrameBadEndEnc == <<53, 140, 162, 182, 71, 154, 156, 184>>
\* temperature, raw value 4693, with last byte 1, encrypted
FrameTrailEnc == <<91, 164, 50, 190, 205, 154, 156, 248>>
\* unknown code 0x41, plaintext
FrameUnknownPlain == <<65, 0, 0, 65, 13, 0, 0, 0>>

FramePool ==
    {FrameCO2Plain, FrameCO2Enc, FrameCO2ZeroEnc, FrameTempPlain,
     FrameTempEnc, FrameUnknownEnc, FrameBadSumEnc,
     FrameTemp2Enc, FrameBadEndEnc, FrameTrailEnc}

(**************************************************************************)
(* The sample aggregator, CO2monitor._read_co2_temp.                      *)
(**************************************************************************)
\* mutant: the loop never breaks
BothObservedNever(c, t) == FALSE

\* the break condition of the loop
BothObserved(c, t) == (c # None) /\ (t # None)

\* mutant: each frame overwrites both fields
AggUpdateOverwrite(c, t, d) == <<d[1], d[2]>>

\* mutant: a field once set is never overwritten
AggUpdateKeepFirst(c, t, d) ==
    <<IF c # None THEN c ELSE d[1], IF t # None THEN t ELSE d[2]>>

\* one iteration of the for loop on decoded values d = <<_co2, _temp>>:
\* the new <<co2, temp>>
AggUpdate(c, t, d) ==
    <<IF d[1] # None THEN d[1] ELSE c, IF d[2] # None THEN d[2] ELSE t>>

\* mutant: the loop runs once more than range(max_requests)
InRangeInclusive(i, n) == i <= n

\* "for ii in range(max_requests)": i passes were made, another one follows
InRange(i, n) == i < n

(**************************************************************************)
(* The device session, CO2monitor.hid_open / hid_close.                   *)
(**************************************************************************)
\* mutant: every hid_open opens the handle
OpenNeededAlways(st) == TRUE

\* hid_open: "if self._status == 0"
OpenNeeded(st) == st = 0

\* mutant: hid_close never decrements the count
CloseStatusKeep(st, force) == IF force THEN 0 ELSE st

\* hid_close: the count after "if force: ... elif self._status > 0: ..."
CloseStatus(st, force) ==
    IF force THEN 0 ELSE IF st > 0 THEN st - 1 ELSE st

\* mutant: every hid_close closes the handle
CloseNeededAlways(st) == TRUE

\* hid_close: "if self._status == 0" before self._h.close()
CloseNeeded(st) == st = 0

\* What the OS does to one hid_open: every call succeeds, open_path fails,
\* or send_feature_report fails.  A failure raises.
OsOutcomes == {"ok", "open_fail", "report_fail"}

VARIABLES
    \* ---- the CO2monitor object
    status,         \* self._status, the open-count
    hOpen,          \* the OS handle self._h is open
    magicSent,      \* the magic table was sent since the handle was opened
    openCalls,      \* calls of self._h.open_path by the sequential caller
    closeCalls,     \* calls of self._h.close by the sequential caller
    \* ---- a sequential caller of the device session
    scopes,         \* co2hid scopes entered and not yet left
    entered,        \* the open-count before each of these scopes was
                    \* entered, innermost last
    nCalls,         \* operations performed
    lastCall,       \* the operation performed last
    \* ---- one call of init_device
    enumerated,     \* the paths of the interfaces hid.enumerate returns
    interface_path, \* the argument: None or the requested path
    initPc,         \* "loop": in the for loop, "returned", "raised"
    checked_interfaces, \* local checked_interfaces
    info_path,      \* self._info['path']: None until set
    init_error,     \* <<>>, or the arguments of the exception raised after
                    \* its message: <<interface_path, checked_interfaces>>
    \* ---- the state a sequential caller's read_data_raw call started in
    pre_status,     \* self._status when the call was made
    pre_last_data,  \* self._last_data when the call was made
    \* ---- monitoring state of the CO2monitor object
    keep_monitoring, \* self._keep_monitoring
    interval,       \* self._interval
    data,           \* self._data (a list: pandas not installed)
    last_data,      \* self._last_data: <<>> until set, else <<sample>>
    \* ---- the threads using one CO2monitor
    top,            \* per thread: the operation it runs
    pc,             \* per thread: its position in that operation
    reg,            \* per thread: the value of self._status it has loaded
    vals,           \* per thread: local vals
    exc,            \* per thread: an exception is propagating
    res,            \* per foreground thread: how its last operation ended
    arg,            \* per foreground thread: argument of start_monitoring
    nOps,           \* operations the foreground threads have started
    post,           \* per monitoring thread: samples it appended since
                    \* _keep_monitoring was last found or set false
    dblOpen,        \* open_path was called on an open handle
    dblClose,       \* close was called on a closed handle
    osRaised,       \* an OS call on the handle has raised
    stopCalled,     \* stop_monitoring has been called
    \* ---- server.py: the monitoring thread and its globals
    srvMon,         \* global mon: 0 for None, else the identity of the
                    \* CO2monitor object
    srvMonitoring,  \* global _monitoring
    srvPc,          \* position of monitoring_CO2
    srvVals,        \* local vals: <<>> for None, else <<sample>>
    srvLog,         \* the samples write_to_log has appended to the log file
    srvErr,         \* the exception raised in the current iteration
    nextMon,        \* CO2monitor objects constructed so far
    dropped,        \* the CO2monitor objects a read of which has failed
    iter,           \* iterations of monitoring_CO2 completed
    \* ---- server.py and homekit.py: the /kill route and the accessory
    killRes,        \* how the last /kill request ended: "none" before one
    retired,        \* per CO2monitor object a read of which has failed: its
                    \* _last_data (<<>>: the attribute was never set)
    hkPc,           \* position of init_homekit_target and of the accessory:
                    \* "off", "wait", "start", "run", or the exception that
                    \* ended it
    accMon,         \* CO2Accessory.monitor: 0 before the accessory exists
    accSeen,        \* the values _read_and_set last put into the CO2 and
                    \* temperature characteristics: None for none yet
    \* ---- the sample aggregator (one call of _read_co2_temp)
    bypass_decrypt, \* CO2monitor.bypass_decrypt
    max_requests,   \* the argument of _read_co2_temp
    aggPc,          \* "loop": in the for loop, "done": returned
    ii,             \* HID reads performed by the call
    co2,            \* local co2
    temp,           \* local temp
    seen,           \* the raw frames the call read, in order
    \* ---- one application of _decrypt / hid_read / decode_message
    frame,          \* the 8 bytes handed to the function
    codecPc,        \* "start", then the function that was applied
    plain,          \* what _decrypt returned: <<>> until applied
    decoded         \* what decode_message returned: <<>> until applied

devVars == <<status, hOpen, magicSent, openCalls, closeCalls>>
initVars == <<enumerated, interface_path, initPc, checked_interfaces,
              info_path, init_error>>
callVars == <<pre_status, pre_last_data>>
seqVars == <<scopes, entered, nCalls, lastCall, initVars, callVars>>
codecVars == <<frame, codecPc, plain, decoded>>
aggVars == <<bypass_decrypt, max_requests, aggPc, ii, co2, temp, seen,
             codecVars>>

monVars == <<keep_monitoring, interval, data, last_data>>
thrVars == <<top, pc, reg, vals, exc, res, arg, nOps, post,
             dblOpen, dblClose, osRaised, stopCalled>>

webVars == <<killRes, retired, hkPc, accMon, accSeen>>
srvVars == <<srvMon, srvMonitoring, srvPc, srvVals, srvLog, srvErr,
             nextMon, dropped, iter, webVars>>

vars == <<devVars, seqVars, monVars, thrVars, srvVars, aggVars>>

\* foreground threads (callers of the CO2monitor's methods) and the slots of
\* the threads start_monitoring creates
Users == {"u1", "u2"}
\* the foreground threads that call read_data_raw, is_alive and
\* stop_monitoring; the others only call start_monitoring
Callers == {"u1"}
Mons == {"m1", "m2"}
Threads == Users \cup Mons

\* the state of a CO2monitor after __init__ (its co2hid scope has been left)
DevInit ==
    /\ status = 0
    /\ hOpen = FALSE
    /\ magicSent = FALSE
    /\ openCalls = 0
    /\ closeCalls = 0

\* the monitoring fields after __init__
MonInit ==
    /\ keep_monitoring = FALSE
    /\ interval = InitInterval
    /\ data = <<>>
    /\ last_data = <<>>

\* no thread runs anything
ThrIdle ==
    /\ top = [t \in Threads |-> IF t \in Users THEN "idle" ELSE "free"]
    /\ pc = [t \in Threads |-> "-"]
    /\ reg = [t \in Threads |-> 0]
    /\ vals = [t \in Threads |-> <<>>]
    /\ exc = [t \in Threads |-> FALSE]
    /\ res = [t \in Users |-> "none"]
    /\ arg = [t \in Users |-> 0]
    /\ nOps = 0
    /\ post = [t \in Mons |-> 0]
    /\ dblOpen = FALSE
    /\ dblClose = FALSE
    /\ osRaised = FALSE
    /\ stopCalled = FALSE

\* the server does not run
\* no /kill request was made and no HomeKit accessory was asked for
WebIdle ==
    /\ killRes = "none"
    /\ retired = [m \in 1..MaxIter |-> <<>>]
    /\ hkPc = "off"
    /\ accMon = 0
    /\ accSeen = <<None, None>>

SrvIdle ==
    /\ WebIdle
    /\ srvMon = 0
    /\ srvMonitoring = FALSE
    /\ srvPc = "idle"
    /\ srvVals = <<>>
    /\ srvLog = <<>>
    /\ srvErr = "none"
    /\ nextMon = 0
    /\ dropped = {}
    /\ iter = 0

\* init_device has found the one attached device (in __init__)
InitDevDone ==
    /\ enumerated = <<"p1">>
    /\ interface_path = None
    /\ initPc = "returned"
    /\ checked_interfaces = <<>>
    /\ info_path = Some("p1")
    /\ init_error = <<>>

\* no read_data_raw call of the sequential caller has been made
CallIdle ==
    /\ pre_status = 0
    /\ pre_last_data = <<>>

SeqIdle ==
    /\ scopes = 0
    /\ entered = <<>>
    /\ nCalls = 0
    /\ lastCall = [op |-> "none", flag |-> FALSE, raised |-> FALSE]
    /\ InitDevDone
    /\ CallIdle

\* no function of the codec is being applied
CodecIdle ==
    /\ frame = <<>>
    /\ codecPc = "idle"
    /\ plain = <<>>
    /\ decoded = <<>>

AggIdle ==
    /\ bypass_decrypt = FALSE
    /\ max_requests = 0
    /\ aggPc = "idle"
    /\ ii = 0
    /\ co2 = None
    /\ temp = None
    /\ seen = <<>>
    /\ CodecIdle

(**************************************************************************)
(* Sequential use of the device session: whole calls, one after another.  *)
(**************************************************************************)
\* hid_open(send_magic_table=send) under OS outcome o: the fields after the
\* call and whether it raised
HidOpenResult(send, o) ==
    IF OpenNeeded(status)
    THEN IF o = "open_fail"
         THEN [status |-> status, hOpen |-> hOpen, magicSent |-> magicSent,
               openCalls |-> openCalls + 1, raised |-> TRUE]
         ELSE IF send /\ o = "report_fail"
         THEN [status |-> status, hOpen |-> TRUE, magicSent |-> FALSE,
               openCalls |-> openCalls + 1, raised |-> TRUE]
         ELSE [status |-> status + 1, hOpen |-> TRUE, magicSent |-> send,
               openCalls |-> openCalls + 1, raised |-> FALSE]
    ELSE [status |-> status + 1, hOpen |-> hOpen, magicSent |-> magicSent,
          openCalls |-> openCalls, raised |-> FALSE]

\* hid_close(force): the fields after the call
HidCloseResult(force) ==
    LET st == CloseStatus(status, force)
    IN  IF CloseNeeded(st)
        THEN [status |-> st, hOpen |-> FALSE, magicSent |-> FALSE,
              closeCalls |-> closeCalls + 1]
        ELSE [status |-> st, hOpen |-> hOpen, magicSent |-> magicSent,
              closeCalls |-> closeCalls]

ApplyOpen(r) ==
    /\ status' = r.status
    /\ hOpen' = r.hOpen
    /\ magicSent' = r.magicSent
    /\ openCalls' = r.openCalls
    /\ UNCHANGED closeCalls

ApplyClose(r) ==
    /\ status' = r.status
    /\ hOpen' = r.hOpen
    /\ magicSent' = r.magicSent
    /\ closeCalls' = r.closeCalls
    /\ UNCHANGED openCalls

\* a call of hid_open
SeqHidOpen ==
    /\ nCalls < MaxCalls
    /\ \E send \in BOOLEAN, o \in OsOutcomes :
         LET r == HidOpenResult(send, o)
         IN  /\ ApplyOpen(r)
             /\ lastCall' = [op |-> "hid_open", flag |-> send,
                             raised |-> r.raised]
    /\ nCalls' = nCalls + 1
    /\ UNCHANGED <<scopes, entered, initVars, callVars, monVars, thrVars, aggVars,
                   srvVars>>

\* a call of hid_close
SeqHidClose ==
    /\ nCalls < MaxCalls
    /\ \E force \in BOOLEAN :
         /\ ApplyClose(HidCloseResult(force))
         /\ lastCall' = [op |-> "hid_close", flag |-> force, raised |-> FALSE]
    /\ nCalls' = nCalls + 1
    /\ UNCHANGED <<scopes, entered, initVars, callVars, monVars, thrVars, aggVars,
                   srvVars>>

\* entering "with self.co2hid(send)": hid_open; the scope is entered only
\* if hid_open returns
SeqCo2hidEnter ==
    /\ nCalls < MaxCalls
    /\ \E send \in BOOLEAN, o \in OsOutcomes :
         LET r == HidOpenResult(send, o)
         IN  /\ ApplyOpen(r)
             /\ scopes' = IF r.raised THEN scopes ELSE scopes + 1
             /\ entered' = IF r.raised THEN entered
                           ELSE Append(entered, status)
             /\ lastCall' = [op |-> "co2hid_enter", flag |-> send,
                             raised |-> r.raised]
    /\ nCalls' = nCalls + 1
    /\ UNCHANGED <<initVars, callVars, monVars, thrVars, aggVars, srvVars>>

\* how the body of a co2hid scope is left: it runs to its end, it returns
\* from inside (is_alive, read_data_raw), or it raises
ExitPaths == {"end", "return", "exception"}

\* leaving a co2hid scope on any path: finally: self.hid_close(); in
\* lastCall, flag tells a return from inside the body and raised an
\* exception of the body, which propagates after hid_close
SeqCo2hidExit ==
    /\ nCalls < MaxCalls
    /\ scopes > 0
    /\ ApplyClose(HidCloseResult(FALSE))
    /\ scopes' = scopes - 1
    /\ entered' = SubSeq(entered, 1, Len(entered) - 1)
    /\ \E path \in ExitPaths :
         lastCall' = [op |-> "co2hid_exit", flag |-> (path = "return"),
                      raised |-> (path = "exception")]
    /\ nCalls' = nCalls + 1
    /\ UNCHANGED <<initVars, callVars, monVars, thrVars, aggVars, srvVars>>

SeqInit == DevInit /\ SeqIdle /\ MonInit /\ ThrIdle /\ SrvIdle /\ AggIdle

SeqNext == SeqHidOpen \/ SeqHidClose \/ SeqCo2hidEnter \/ SeqCo2hidExit

SpecSeq == SeqInit /\ [][SeqNext]_vars

\* C1: at every point between calls the OS handle is open iff the
\* open-count is greater than 0.
C1_HandleOpenIffCounted == hOpen <=> (status > 0)

\* C2: a hid_close() without force performs an OS-level close exactly when
\* it takes the count from 1 to 0; called at count 0 it performs none and
\* leaves the count at 0.
C2_ExtraCloseIsNoOp ==
    [][(nCalls' = nCalls + 1 /\ lastCall'.op = "hid_close" /\ ~lastCall'.flag)
        => /\ (closeCalls' = closeCalls + 1) <=> (status = 1)
           /\ (closeCalls' = closeCalls) <=> (status # 1)
           /\ (status = 0 => status' = 0)]_vars

\* C19: leaving a co2hid scope, on each of the three exit paths, runs
\* hid_close once: the count goes down by one (it stays 0 if the body left it
\* at 0), at most one OS-level close is made, and when the body has left the
\* count where entering the scope had put it, the count after the scope is
\* the count before the scope was entered.
C19_ScopeRestoresCount ==
    [][(nCalls' = nCalls + 1 /\ lastCall'.op = "co2hid_exit")
        => /\ status' = (IF status > 0 THEN status - 1 ELSE 0)
           /\ closeCalls' \in {closeCalls, closeCalls + 1}
           /\ openCalls' = openCalls
           /\ (status = entered[Len(entered)] + 1)
                 => status' = entered[Len(entered)]]_vars

\* C19 witness: an inner scope, entered at count 1, was left by an exception
\* and the count is 1 again, the outer scope still holding the handle.
C19_Witness ==
    /\ lastCall.op = "co2hid_exit" /\ lastCall.raised
    /\ scopes = 1 /\ entered = <<0>>
    /\ status = 1 /\ hOpen

\* C20: a call of hid_open (directly or on entering a co2hid scope) that
\* returns increments the count by exactly one; the OS-level open is made
\* exactly when the count was 0 before the call, the magic table is sent
\* only then and only if requested, and a call at a count above 0 leaves
\* the OS handle untouched and cannot fail.
C20_OpenCountsAndOpensOnce ==
    [][(nCalls' = nCalls + 1 /\ lastCall'.op \in {"hid_open", "co2hid_enter"})
        => /\ ~lastCall'.raised => status' = status + 1
           /\ status' \in {status, status + 1}
           /\ (openCalls' = openCalls + 1) <=> (status = 0)
           /\ (openCalls' = openCalls) <=> (status > 0)
           /\ (magicSent' /\ ~magicSent) => (status = 0 /\ lastCall'.flag)
           /\ status > 0 =>
                 /\ hOpen' = hOpen /\ magicSent' = magicSent
                 /\ closeCalls' = closeCalls
                 /\ ~lastCall'.raised]_vars

\* C20 witness: a nested hid_open has returned: the count is 2 after a
\* single OS-level open.
C20_Witness ==
    /\ lastCall.op = "hid_open" /\ ~lastCall.raised
    /\ status = 2 /\ openCalls = 1 /\ closeCalls = 0 /\ hOpen

\* C21: hid_close(force=True) sets the count to 0 and closes the OS handle
\* from every count; hid_close() from a count k > 1 sets it to k - 1 and
\* leaves the handle alone; hid_close() from count 1 sets it to 0 and closes
\* the handle.
C21_ForceAndLastClose ==
    [][(nCalls' = nCalls + 1 /\ lastCall'.op = "hid_close")
        => /\ lastCall'.flag =>
                 /\ status' = 0 /\ ~hOpen'
                 /\ closeCalls' = closeCalls + 1
           /\ (~lastCall'.flag /\ status > 1) =>
                 /\ status' = status - 1
                 /\ hOpen' = hOpen /\ magicSent' = magicSent
                 /\ closeCalls' = closeCalls
           /\ (~lastCall'.flag /\ status = 1) =>
                 /\ status' = 0 /\ ~hOpen'
                 /\ closeCalls' = closeCalls + 1]_vars

\* C21 witness: after two hid_open calls, hid_close() was called once: the
\* count is 1 and the handle is still open, no OS-level close was made.
C21_Witness ==
    /\ lastCall.op = "hid_close" /\ ~lastCall.flag
    /\ status = 1 /\ hOpen /\ openCalls = 1 /\ closeCalls = 0


(**************************************************************************)
(* Threads on one CO2monitor: foreground calls of read_data_raw, is_alive, *)
(* start_monitoring and stop_monitoring, and the _monitoring threads.     *)
(* The code takes no lock, so every read and write of a field is a step.  *)
(**************************************************************************)
\* the samples _read_co2_temp can return (timestamp left out): each field
\* absent or present
SampleSet ==
    {<<c, t>> : c \in {None, DecodeMessage(FrameCO2Plain)[1]},
                t \in {None, DecodeMessage(FrameTempPlain)[2]}}

\* the samples the threads' reads are drawn from: a complete and a partial one
ThreadSamples ==
    {sm \in SampleSet : sm[1] # None}

\* mutant: hid_close never takes the decrementing branch
DecrementableNever(st) == FALSE

\* hid_close: "elif self._status > 0"
Decrementable(st) == st > 0

\* mutant: the loop ignores the flag
LoopConditionAlways == TRUE

\* _monitoring: "while self._keep_monitoring"
LoopCondition == keep_monitoring

\* start_monitoring: "if self._keep_monitoring: return"
AlreadyStarted == keep_monitoring

\* the slot a new thread takes: one that never ran or whose thread has ended
FreeSlots == {m \in Mons : top[m] \in {"free", "dead"}}
NewSlot == CHOOSE m \in FreeSlots : \A o \in FreeSlots : top[m] = "free" \/ top[o] # "free"

\* the operation of thread t ends: normally with result r, or by the
\* exception that is propagating
Finish(t, r) ==
    /\ pc' = [pc EXCEPT ![t] = "-"]
    /\ reg' = [reg EXCEPT ![t] = 0]
    /\ vals' = [vals EXCEPT ![t] = <<>>]
    /\ exc' = [exc EXCEPT ![t] = FALSE]
    /\ top' = [top EXCEPT ![t] = IF t \in Users THEN "idle" ELSE "dead"]
    /\ res' = IF t \in Users THEN [res EXCEPT ![t] = r] ELSE res

\* how an operation entered through co2hid ends once hid_close has run
ScopeResult(t) ==
    IF exc[t] THEN "raised"
    ELSE IF top[t] = "is_alive" THEN "true" ELSE "ok"

\* how it ends when hid_open raises: co2hid has no scope yet, so hid_close is
\* not run; is_alive catches the exception and returns False
OpenRaised(t) ==
    /\ Finish(t, IF top[t] = "is_alive" THEN "false" ELSE "raised")
    /\ osRaised' = TRUE

\* a foreground thread calls read_data_raw()
CallReadDataRaw(t) ==
    /\ t \in Callers /\ top[t] = "idle" /\ nOps < MaxOps
    /\ top' = [top EXCEPT ![t] = "read_data_raw"]
    /\ pc' = [pc EXCEPT ![t] = "open_check"]
    /\ nOps' = nOps + 1
    /\ UNCHANGED <<devVars, seqVars, monVars, aggVars, srvVars>>
    /\ UNCHANGED <<reg, vals, exc, res, arg, post, dblOpen, dblClose,
                   osRaised, stopCalled>>

\* a foreground thread reads the property is_alive
CallIsAlive(t) ==
    /\ t \in Callers /\ top[t] = "idle" /\ nOps < MaxOps
    /\ top' = [top EXCEPT ![t] = "is_alive"]
    /\ pc' = [pc EXCEPT ![t] = "open_check"]
    /\ nOps' = nOps + 1
    /\ UNCHANGED <<devVars, seqVars, monVars, aggVars, srvVars>>
    /\ UNCHANGED <<reg, vals, exc, res, arg, post, dblOpen, dblClose,
                   osRaised, stopCalled>>

\* a foreground thread calls start_monitoring(iv)
CallStartMonitoring(t) ==
    /\ t \in Users /\ top[t] = "idle" /\ nOps < MaxOps
    /\ \E iv \in {DefaultInterval} :
         arg' = [arg EXCEPT ![t] = iv]
    /\ top' = [top EXCEPT ![t] = "start_monitoring"]
    /\ pc' = [pc EXCEPT ![t] = "sm_interval"]
    /\ nOps' = nOps + 1
    /\ UNCHANGED <<devVars, seqVars, monVars, aggVars, srvVars>>
    /\ UNCHANGED <<reg, vals, exc, res, post, dblOpen, dblClose,
                   osRaised, stopCalled>>

\* stop_monitoring(): self._keep_monitoring = False
StopMonitoring(t) ==
    /\ t \in Callers /\ top[t] = "idle" /\ nOps < MaxOps
    /\ keep_monitoring' = FALSE
    /\ stopCalled' = TRUE
    /\ res' = [res EXCEPT ![t] = "ok"]
    /\ nOps' = nOps + 1
    /\ UNCHANGED <<devVars, seqVars, aggVars, srvVars, interval, data, last_data>>
    /\ UNCHANGED <<top, pc, reg, vals, exc, arg, post, dblOpen, dblClose,
                   osRaised>>

\* ---- hid_open(send_magic_table=True), entered from co2hid
\* if self._status == 0
OpenCheck(t) ==
    /\ pc[t] = "open_check"
    /\ pc' = [pc EXCEPT ![t] =
                IF OpenNeeded(status) THEN "open_path" ELSE "open_load"]
    /\ UNCHANGED <<devVars, seqVars, monVars, aggVars, srvVars>>
    /\ UNCHANGED <<top, reg, vals, exc, res, arg, nOps, post, dblOpen,
                   dblClose, osRaised, stopCalled>>

\* self._h.open_path(self._info['path']) returns
OpenPathOk(t) ==
    /\ pc[t] = "open_path"
    /\ hOpen' = TRUE
    /\ magicSent' = FALSE
    /\ dblOpen' = (dblOpen \/ hOpen)
    /\ pc' = [pc EXCEPT ![t] = "open_magic"]
    /\ UNCHANGED <<status, openCalls, closeCalls, seqVars, monVars, aggVars, srvVars>>
    /\ UNCHANGED <<top, reg, vals, exc, res, arg, nOps, post, dblClose,
                   osRaised, stopCalled>>

\* self._h.open_path raises
OpenPathFail(t) ==
    /\ pc[t] = "open_path"
    /\ dblOpen' = (dblOpen \/ hOpen)
    /\ OpenRaised(t)
    /\ UNCHANGED <<status, hOpen, magicSent, openCalls, closeCalls>>
    /\ UNCHANGED <<seqVars, monVars, aggVars, srvVars, arg, nOps, post, dblClose,
                   stopCalled>>

\* self._h.send_feature_report(self._magic_table) returns
OpenMagicOk(t) ==
    /\ pc[t] = "open_magic"
    /\ magicSent' = hOpen
    /\ pc' = [pc EXCEPT ![t] = "open_load"]
    /\ UNCHANGED <<status, hOpen, openCalls, closeCalls>>
    /\ UNCHANGED <<seqVars, monVars, aggVars, srvVars>>
    /\ UNCHANGED <<top, reg, vals, exc, res, arg, nOps, post, dblOpen,
                   dblClose, osRaised, stopCalled>>

\* self._h.send_feature_report raises
OpenMagicFail(t) ==
    /\ pc[t] = "open_magic"
    /\ OpenRaised(t)
    /\ UNCHANGED <<devVars, seqVars, monVars, aggVars, srvVars>>
    /\ UNCHANGED <<arg, nOps, post, dblOpen, dblClose, stopCalled>>

\* self._status += 1: the load
OpenLoad(t) ==
    /\ pc[t] = "open_load"
    /\ reg' = [reg EXCEPT ![t] = status]
    /\ pc' = [pc EXCEPT ![t] = "open_store"]
    /\ UNCHANGED <<devVars, seqVars, monVars, aggVars, srvVars>>
    /\ UNCHANGED <<top, vals, exc, res, arg, nOps, post, dblOpen, dblClose,
                   osRaised, stopCalled>>

\* self._status += 1: the store; co2hid yields to the body of the with
OpenStore(t) ==
    /\ pc[t] = "open_store"
    /\ status' = reg[t] + 1
    /\ pc' = [pc EXCEPT ![t] =
                IF top[t] = "read_data_raw" THEN "read"
                ELSE IF top[t] = "_monitoring" THEN "loop"
                ELSE "close_check"]
    /\ UNCHANGED <<hOpen, magicSent, openCalls, closeCalls>>
    /\ UNCHANGED <<seqVars, monVars, aggVars, srvVars>>
    /\ UNCHANGED <<top, reg, vals, exc, res, arg, nOps, post, dblOpen,
                   dblClose, osRaised, stopCalled>>

\* ---- the bodies
\* vals = self._read_co2_temp(...) returns a sample
ReadOk(t) ==
    /\ pc[t] \in {"read", "mread"}
    /\ hOpen
    /\ \E sm \in ThreadSamples : vals' = [vals EXCEPT ![t] = <<sm>>]
    /\ pc' = [pc EXCEPT ![t] = IF pc[t] = "read" THEN "set_last" ELSE "append"]
    /\ UNCHANGED <<devVars, seqVars, monVars, aggVars, srvVars>>
    /\ UNCHANGED <<top, reg, exc, res, arg, nOps, post, dblOpen, dblClose,
                   osRaised, stopCalled>>

\* self._h.read(8) raises inside _read_co2_temp: the with block is left by
\* the exception
ReadFail(t) ==
    /\ pc[t] \in {"read", "mread"}
    /\ exc' = [exc EXCEPT ![t] = TRUE]
    /\ osRaised' = TRUE
    /\ pc' = [pc EXCEPT ![t] = "close_check"]
    /\ UNCHANGED <<devVars, seqVars, monVars, aggVars, srvVars>>
    /\ UNCHANGED <<top, reg, vals, res, arg, nOps, post, dblOpen, dblClose,
                   stopCalled>>

\* read_data_raw: self._last_data = vals; return vals
SetLastData(t) ==
    /\ pc[t] = "set_last"
    /\ last_data' = vals[t]
    /\ pc' = [pc EXCEPT ![t] = "close_check"]
    /\ UNCHANGED <<devVars, seqVars, aggVars, srvVars, keep_monitoring, interval, data>>
    /\ UNCHANGED <<top, reg, vals, exc, res, arg, nOps, post, dblOpen,
                   dblClose, osRaised, stopCalled>>

\* _monitoring: while self._keep_monitoring and it holds
LoopEnter(t) ==
    /\ pc[t] = "loop"
    /\ LoopCondition
    /\ Len(data) < MaxData
    /\ pc' = [pc EXCEPT ![t] = "mread"]
    /\ UNCHANGED <<devVars, seqVars, monVars, aggVars, srvVars>>
    /\ UNCHANGED <<top, reg, vals, exc, res, arg, nOps, post, dblOpen,
                   dblClose, osRaised, stopCalled>>

\* _monitoring: while self._keep_monitoring and it does not hold
LoopExit(t) ==
    /\ pc[t] = "loop"
    /\ ~LoopCondition
    /\ pc' = [pc EXCEPT ![t] = "close_check"]
    /\ UNCHANGED <<devVars, seqVars, monVars, aggVars, srvVars>>
    /\ UNCHANGED <<top, reg, vals, exc, res, arg, nOps, post, dblOpen,
                   dblClose, osRaised, stopCalled>>

\* _monitoring: self._data.append(vals); time.sleep(self._interval) returns
AppendData(t) ==
    /\ pc[t] = "append"
    /\ data' = Append(data, vals[t][1])
    /\ post' = [post EXCEPT ![t] =
                  IF keep_monitoring THEN 0
                  ELSE IF post[t] < 2 THEN post[t] + 1 ELSE 2]
    /\ pc' = [pc EXCEPT ![t] = "loop"]
    /\ vals' = [vals EXCEPT ![t] = <<>>]
    /\ UNCHANGED <<devVars, seqVars, aggVars, srvVars, keep_monitoring, interval,
                   last_data>>
    /\ UNCHANGED <<top, reg, exc, res, arg, nOps, dblOpen, dblClose,
                   osRaised, stopCalled>>

\* ---- hid_close(), run by the finally of co2hid
\* elif self._status > 0
CloseCheck(t) ==
    /\ pc[t] = "close_check"
    /\ pc' = [pc EXCEPT ![t] =
                IF Decrementable(status) THEN "close_load" ELSE "close_test"]
    /\ UNCHANGED <<devVars, seqVars, monVars, aggVars, srvVars>>
    /\ UNCHANGED <<top, reg, vals, exc, res, arg, nOps, post, dblOpen,
                   dblClose, osRaised, stopCalled>>

\* self._status -= 1: the load
CloseLoad(t) ==
    /\ pc[t] = "close_load"
    /\ reg' = [reg EXCEPT ![t] = status]
    /\ pc' = [pc EXCEPT ![t] = "close_store"]
    /\ UNCHANGED <<devVars, seqVars, monVars, aggVars, srvVars>>
    /\ UNCHANGED <<top, vals, exc, res, arg, nOps, post, dblOpen, dblClose,
                   osRaised, stopCalled>>

\* self._status -= 1: the store
CloseStore(t) ==
    /\ pc[t] = "close_store"
    /\ status' = reg[t] - 1
    /\ pc' = [pc EXCEPT ![t] = "close_test"]
    /\ UNCHANGED <<hOpen, magicSent, openCalls, closeCalls>>
    /\ UNCHANGED <<seqVars, monVars, aggVars, srvVars>>
    /\ UNCHANGED <<top, reg, vals, exc, res, arg, nOps, post, dblOpen,
                   dblClose, osRaised, stopCalled>>

\* if self._status == 0 and it holds
CloseTestClose(t) ==
    /\ pc[t] = "close_test"
    /\ CloseNeeded(status)
    /\ pc' = [pc EXCEPT ![t] = "close_call"]
    /\ UNCHANGED <<devVars, seqVars, monVars, aggVars, srvVars>>
    /\ UNCHANGED <<top, reg, vals, exc, res, arg, nOps, post, dblOpen,
                   dblClose, osRaised, stopCalled>>

\* if self._status == 0 and it does not hold: hid_close and the scope end
CloseTestKeep(t) ==
    /\ pc[t] = "close_test"
    /\ ~CloseNeeded(status)
    /\ Finish(t, ScopeResult(t))
    /\ UNCHANGED <<devVars, seqVars, monVars, aggVars, srvVars>>
    /\ UNCHANGED <<arg, nOps, post, dblOpen, dblClose, osRaised, stopCalled>>

\* self._h.close(); hid_close and the scope end
CloseCall(t) ==
    /\ pc[t] = "close_call"
    /\ hOpen' = FALSE
    /\ magicSent' = FALSE
    /\ dblClose' = (dblClose \/ ~hOpen)
    /\ Finish(t, ScopeResult(t))
    /\ UNCHANGED <<status, openCalls, closeCalls, seqVars, monVars, aggVars, srvVars>>
    /\ UNCHANGED <<arg, nOps, post, dblOpen, osRaised, stopCalled>>

\* ---- start_monitoring(interval)
\* self._interval = interval
StartSetInterval(t) ==
    /\ pc[t] = "sm_interval"
    /\ interval' = arg[t]
    /\ pc' = [pc EXCEPT ![t] = "sm_check"]
    /\ UNCHANGED <<devVars, seqVars, aggVars, srvVars, keep_monitoring, data, last_data>>
    /\ UNCHANGED <<top, reg, vals, exc, res, arg, nOps, post, dblOpen,
                   dblClose, osRaised, stopCalled>>

\* if self._keep_monitoring: return
StartReturn(t) ==
    /\ pc[t] = "sm_check"
    /\ AlreadyStarted
    /\ Finish(t, "ok")
    /\ UNCHANGED <<devVars, seqVars, monVars, aggVars, srvVars>>
    /\ UNCHANGED <<arg, nOps, post, dblOpen, dblClose, osRaised, stopCalled>>

\* if self._keep_monitoring: it does not hold
StartProceed(t) ==
    /\ pc[t] = "sm_check"
    /\ ~AlreadyStarted
    /\ pc' = [pc EXCEPT ![t] = "sm_set"]
    /\ UNCHANGED <<devVars, seqVars, monVars, aggVars, srvVars>>
    /\ UNCHANGED <<top, reg, vals, exc, res, arg, nOps, post, dblOpen,
                   dblClose, osRaised, stopCalled>>

\* self._keep_monitoring = True
StartSetFlag(t) ==
    /\ pc[t] = "sm_set"
    /\ keep_monitoring' = TRUE
    /\ post' = [m \in Mons |-> 0]
    /\ pc' = [pc EXCEPT ![t] = "sm_spawn"]
    /\ UNCHANGED <<devVars, seqVars, aggVars, srvVars, interval, data, last_data>>
    /\ UNCHANGED <<top, reg, vals, exc, res, arg, nOps, dblOpen, dblClose,
                   osRaised, stopCalled>>

\* t = threading.Thread(target=self._monitoring); t.start()
StartSpawn(t) ==
    /\ pc[t] = "sm_spawn"
    /\ FreeSlots # {}
    /\ top' = [top EXCEPT ![t] = "idle", ![NewSlot] = "_monitoring"]
    /\ pc' = [pc EXCEPT ![t] = "-", ![NewSlot] = "open_check"]
    /\ res' = [res EXCEPT ![t] = "ok"]
    /\ UNCHANGED <<devVars, seqVars, monVars, aggVars, srvVars>>
    /\ UNCHANGED <<reg, vals, exc, arg, nOps, post, dblOpen, dblClose,
                   osRaised, stopCalled>>

\* a step of a foreground thread
UserStep(t) ==
    \/ CallReadDataRaw(t) \/ CallIsAlive(t) \/ CallStartMonitoring(t)
    \/ StopMonitoring(t)
    \/ StartSetInterval(t) \/ StartReturn(t) \/ StartProceed(t)
    \/ StartSetFlag(t) \/ StartSpawn(t)
    \/ SetLastData(t)

\* a step of a _monitoring thread
MonStep(t) == LoopEnter(t) \/ LoopExit(t) \/ AppendData(t)

\* a step inside the scoped session, taken by either kind of thread
ScopeStep(t) ==
    \/ OpenCheck(t) \/ OpenPathOk(t) \/ OpenPathFail(t)
    \/ OpenMagicOk(t) \/ OpenMagicFail(t) \/ OpenLoad(t) \/ OpenStore(t)
    \/ ReadOk(t) \/ ReadFail(t)
    \/ CloseCheck(t) \/ CloseLoad(t) \/ CloseStore(t)
    \/ CloseTestClose(t) \/ CloseTestKeep(t) \/ CloseCall(t)

Init == DevInit /\ SeqIdle /\ MonInit /\ ThrIdle /\ SrvIdle /\ AggIdle

Next ==
    \/ \E t \in Users : UserStep(t)
    \/ \E t \in Mons : MonStep(t)
    \/ \E t \in Threads : ScopeStep(t)

Spec == Init /\ [][Next]_vars

\* every step of a started _monitoring thread is eventually taken: the
\* scheduler runs it, and a HID read returns or raises
MonThreadStep(t) == MonStep(t) \/ ScopeStep(t)

Fairness == \A t \in Mons : WF_vars(MonThreadStep(t))

FairSpec == Spec /\ Fairness

\* thread t is inside a co2hid scope (between hid_open and the end of
\* hid_close)
InScope(t) ==
    pc[t] \notin {"-", "sm_interval", "sm_check", "sm_set", "sm_spawn"}

\* the _monitoring threads that are running
AliveMons == {m \in Mons : top[m] = "_monitoring"}

\* C3: under every interleaving of a foreground read_data_raw or is_alive
\* with the _monitoring thread, open_path is never called on an open
\* handle, close is never called on a closed handle, and once no thread is
\* inside a scope the handle is closed.  Stated for the runs in which no OS
\* call has raised (C1 covers a raising hid_open).
C3_OpenOnceCloseOnce ==
    ~osRaised =>
        /\ ~dblOpen
        /\ ~dblClose
        /\ (\A t \in Threads : ~InScope(t)) => ~hOpen

\* C4: as long as stop_monitoring has not been called, start_monitoring
\* calls (sequential or concurrent) leave at most one _monitoring thread
\* running.
C4_SingleLoop == ~stopCalled => Cardinality(AliveMons) <= 1

\* C7: after stop_monitoring a _monitoring thread appends at most one more
\* sample, and unless start_monitoring sets the flag again it terminates.
C7_StopHalts ==
    /\ [](\A m \in Mons : post[m] <= 1)
    /\ \A m \in Mons :
         (top[m] = "_monitoring" /\ ~keep_monitoring)
            ~> (top[m] # "_monitoring" \/ keep_monitoring)

\* C7 witness: stop_monitoring came during a read; the thread appended that
\* one sample, left the loop and ended normally.
C7_Witness ==
    \E m \in Mons :
        /\ top[m] = "dead" /\ post[m] = 1
        /\ stopCalled /\ ~keep_monitoring /\ ~osRaised

\* C23: is_alive called on a monitor nobody else uses (count 0, handle
\* closed) returns True exactly if no call of the open/close round-trip
\* raised, and in both outcomes leaves the count at 0 and the handle closed.
C23_IsAliveNoSideEffect ==
    (nOps = 1 /\ top["u1"] = "idle" /\ res["u1"] \in {"true", "false"}) =>
        /\ status = 0 /\ ~hOpen
        /\ (res["u1"] = "true") <=> ~osRaised

\* C25: in the runs in which no OS call has raised, every read of
\* read_data_raw and of the _monitoring loop that returns is made inside a
\* scope, on an open handle, with the magic table sent since the most recent
\* open_path.
C25_ReadsAfterMagicTable ==
    [][~osRaised =>
         \A t \in Threads :
            (pc[t] \in {"read", "mread"} /\ pc'[t] \in {"set_last", "append"})
               => (InScope(t) /\ hOpen /\ magicSent)]_vars

\* C28: once start_monitoring has returned and the loop has appended a
\* sample, _keep_monitoring true implies that a _monitoring thread is alive.
C28_FlagFalseWhenLoopEnded ==
    (/\ \A u \in Users : top[u] = "idle"
     /\ Len(data) > 0
     /\ keep_monitoring)
        => AliveMons # {}

(**************************************************************************)
(* Monitoring control: start_monitoring, stop_monitoring and read_data on *)
(* a monitor that is idle or already monitoring, and whose session the    *)
(* caller may hold through a hid_open of its own.                         *)
(**************************************************************************)
\* the intervals the running loop may have been started with
Intervals == {DefaultInterval, InitInterval}

\* read_data(): with _keep_monitoring set it returns self._data[-1], which
\* raises IndexError on an empty list; otherwise it goes on as read_data_raw
ReadData(t) ==
    /\ t \in Callers /\ top[t] = "idle" /\ nOps < MaxOps
    /\ nOps' = nOps + 1
    /\ IF keep_monitoring
       THEN /\ IF data = <<>>
               THEN /\ res' = [res EXCEPT ![t] = "IndexError"]
                    /\ vals' = [vals EXCEPT ![t] = <<>>]
               ELSE /\ res' = [res EXCEPT ![t] = "sample"]
                    /\ vals' = [vals EXCEPT ![t] = <<data[Len(data)]>>]
            /\ UNCHANGED <<top, pc>>
       ELSE /\ top' = [top EXCEPT ![t] = "read_data_raw"]
            /\ pc' = [pc EXCEPT ![t] = "open_check"]
            /\ UNCHANGED <<res, vals>>
    /\ UNCHANGED <<devVars, seqVars, monVars, aggVars, srvVars>>
    /\ UNCHANGED <<reg, exc, arg, post, dblOpen, dblClose, osRaised,
                   stopCalled>>

\* a monitor after __init__, or after start_monitoring(iv) has returned and
\* the loop has begun its first read; held = 1 if the caller has called
\* hid_open() before and not yet hid_close()
CtlInit ==
    /\ \E held \in {0, 1}, running \in BOOLEAN, iv \in Intervals :
         /\ status = held + (IF running THEN 1 ELSE 0)
         /\ hOpen = (held = 1 \/ running)
         /\ magicSent = (held = 1 \/ running)
         /\ openCalls = held
         /\ nCalls = held
         /\ lastCall = [op |-> IF held = 1 THEN "hid_open" ELSE "none",
                        flag |-> (held = 1), raised |-> FALSE]
         /\ keep_monitoring = running
         /\ interval = (IF running THEN iv ELSE InitInterval)
         /\ top = [t \in Threads |->
                     IF t \in Users THEN "idle"
                     ELSE IF running /\ t = "m1" THEN "_monitoring"
                     ELSE "free"]
         /\ pc = [t \in Threads |->
                    IF running /\ t = "m1" THEN "mread" ELSE "-"]
    /\ closeCalls = 0
    /\ scopes = 0
    /\ entered = <<>>
    /\ InitDevDone
    /\ CallIdle
    /\ data = <<>>
    /\ last_data = <<>>
    /\ reg = [t \in Threads |-> 0]
    /\ vals = [t \in Threads |-> <<>>]
    /\ exc = [t \in Threads |-> FALSE]
    /\ res = [t \in Users |-> "none"]
    /\ arg = [t \in Users |-> 0]
    /\ nOps = 0
    /\ post = [t \in Mons |-> 0]
    /\ dblOpen = FALSE
    /\ dblClose = FALSE
    /\ osRaised = FALSE
    /\ stopCalled = FALSE
    /\ SrvIdle
    /\ AggIdle

\* a step of a foreground thread that controls or reads the monitoring
CtlUserStep(t) ==
    \/ CallStartMonitoring(t) \/ StopMonitoring(t) \/ ReadData(t)
    \/ StartSetInterval(t) \/ StartReturn(t) \/ StartProceed(t)
    \/ StartSetFlag(t) \/ StartSpawn(t)
    \/ SetLastData(t)

CtlNext ==
    \/ \E t \in Users : CtlUserStep(t)
    \/ \E t \in Mons : MonStep(t)
    \/ \E t \in Threads : ScopeStep(t)

SpecCtl == CtlInit /\ [][CtlNext]_vars

(**************************************************************************)
(* Specification of read_data_raw called by one thread, call after call,  *)
(* on a monitor it may already hold open.                                 *)
(**************************************************************************)
\* the caller has called hid_open() once, or not, and nothing is monitoring
RawInit == CtlInit /\ ~keep_monitoring

\* the caller calls read_data_raw()
RawCall(t) ==
    /\ top[t] = "idle" /\ nOps < MaxOps
    /\ top' = [top EXCEPT ![t] = "read_data_raw"]
    /\ pc' = [pc EXCEPT ![t] = "open_check"]
    /\ nOps' = nOps + 1
    /\ pre_status' = status
    /\ pre_last_data' = last_data
    /\ UNCHANGED <<scopes, entered, nCalls, lastCall, initVars>>
    /\ UNCHANGED <<devVars, monVars, aggVars, srvVars>>
    /\ UNCHANGED <<reg, vals, exc, res, arg, post, dblOpen, dblClose,
                   osRaised, stopCalled>>

RawNext == RawCall("u1") \/ ScopeStep("u1") \/ SetLastData("u1")

SpecRaw == RawInit /\ [][RawNext]_vars

\* C31: the step with which a read_data_raw call of a thread that has the
\* monitor to itself ends leaves the open-count at the value it had when
\* the call was made; when the call returns, _last_data is the sample it
\* returns, and when it raises (in hid_open or in the read), _last_data is
\* what it was when the call was made.
C31_ReadDataRawFrame ==
    [][(top["u1"] = "read_data_raw" /\ top'["u1"] = "idle") =>
         /\ status' = pre_status
         /\ res'["u1"] = "ok" =>
               (Len(vals["u1"]) = 1 /\ last_data' = vals["u1"])
         /\ res'["u1"] # "ok" =>
               (res'["u1"] = "raised" /\ last_data' = pre_last_data)]_vars

\* C31 witness: on a monitor held open once a first call returned a sample
\* and a second call has raised: the count is 1 again and _last_data is
\* still the first call's sample.
C31_Witness ==
    /\ top["u1"] = "idle" /\ res["u1"] = "raised" /\ nOps = 2
    /\ pre_status = 1 /\ status = 1
    /\ pre_last_data # <<>> /\ last_data = pre_last_data

\* C26: the step of a start_monitoring call that is made while monitoring
\* runs (the flag is set, a loop is alive, no other call is under way)
\* leaves _interval as it was.
C26_RestartIsNoOp ==
    [][\A t \in Users :
         (/\ pc[t] = "sm_interval" /\ pc'[t] = "sm_check"
          /\ keep_monitoring /\ AliveMons # {}
          /\ \A u \in Users \ {t} : top[u] = "idle")
            => interval' = interval]_vars

\* C27: when start_monitoring and stop_monitoring are called one after the
\* other by one thread, at most one _monitoring thread is alive at any time.
C27_AtMostOneLoop ==
    (arg["u2"] = 0 /\ top["u2"] = "idle") => Cardinality(AliveMons) <= 1

\* C29: when the only _monitoring thread ever started has ended after
\* stop_monitoring, no OS call has raised and no foreground call has used the
\* session, the count is what the caller held before (0 or 1) and the handle
\* is closed exactly if the caller holds nothing.
C29_LoopReleasesSession ==
    \A m \in Mons :
        (/\ top[m] = "dead"
         /\ \A o \in Mons \ {m} : top[o] = "free"
         /\ stopCalled /\ ~osRaised
         /\ last_data = <<>>
         /\ \A u \in Users : ~InScope(u))
            => (status = openCalls /\ (hOpen <=> openCalls > 0))

\* C29 witness: the loop ran on a monitor nobody else held, appended a
\* sample, was stopped and has ended: the count is 0 and the handle closed.
C29_Witness ==
    /\ top["m1"] = "dead" /\ top["m2"] = "free"
    /\ stopCalled /\ ~osRaised /\ last_data = <<>>
    /\ \A u \in Users : top[u] = "idle"
    /\ Len(data) = 1
    /\ openCalls = 0 /\ status = 0 /\ ~hOpen

\* C30: no read_data call ends with an error.
C30_ReadDataNeverFails == \A u \in Users : res[u] # "IndexError"

(**************************************************************************)
(* server.py: the thread running monitoring_CO2, and the /kill route.     *)
(**************************************************************************)
\* '%d' % x and '%.1f' % x raise TypeError when x is None
FormatsAsNumber(x) == x # None

\* logging.info('[%s] %d ppm, %.1f deg C' % tuple(vals)) and
\* f.write('%s,%d,%.1f\n' % vals) can be evaluated
SampleFormats(sm) == FormatsAsNumber(sm[1]) /\ FormatsAsNumber(sm[2])

\* mutant: the monitor is kept after a failed read
MonKeptAfterReadError(m) == m

\* read_co2_data: the value of mon after "except OSError" around
\* mon.read_data_raw, for the monitor m whose read failed
MonAfterReadError(m) == 0

\* while _monitoring: it holds.  (The only assignment of False to
\* _monitoring is line 137, which no execution reaches: see SrvKill.)
SrvLoopEnter ==
    /\ srvPc = "loop"
    /\ srvMonitoring
    /\ iter < MaxIter
    /\ srvPc' = "acquire"
    /\ srvErr' = "none"
    /\ srvVals' = <<>>
    /\ UNCHANGED <<srvMon, srvMonitoring, srvLog, nextMon, dropped, iter>>
    /\ UNCHANGED <<devVars, seqVars, monVars, thrVars, aggVars>>
    /\ UNCHANGED webVars

\* read_co2_data: mon is not None, nothing to construct
SrvAcquireKeep ==
    /\ srvPc = "acquire"
    /\ srvMon # 0
    /\ srvPc' = "read"
    /\ UNCHANGED <<srvMon, srvMonitoring, srvVals, srvLog, srvErr, nextMon,
                   dropped, iter>>
    /\ UNCHANGED <<devVars, seqVars, monVars, thrVars, aggVars>>
    /\ UNCHANGED webVars

\* read_co2_data: mon = co2.CO2monitor(...) returns; time.sleep(_INIT_TIME)
SrvAcquireNew ==
    /\ srvPc = "acquire"
    /\ srvMon = 0
    /\ nextMon' = nextMon + 1
    /\ srvMon' = nextMon + 1
    /\ last_data' = <<>>
    /\ srvPc' = "read"
    /\ UNCHANGED <<srvMonitoring, srvVals, srvLog, srvErr, dropped, iter>>
    /\ UNCHANGED <<devVars, seqVars, thrVars, aggVars>>
    /\ UNCHANGED <<keep_monitoring, interval, data>>
    /\ UNCHANGED webVars

\* read_co2_data: CO2monitor.__init__ raises OSError (the HID open in its
\* co2hid scope fails); except OSError: return None
SrvAcquireOSError ==
    /\ srvPc = "acquire"
    /\ srvMon = 0
    /\ srvErr' = "OSError_init"
    /\ srvVals' = <<>>
    /\ srvPc' = "log"
    /\ UNCHANGED <<srvMon, srvMonitoring, srvLog, nextMon, dropped, iter>>
    /\ UNCHANGED <<devVars, seqVars, monVars, thrVars, aggVars>>
    /\ UNCHANGED webVars

\* read_co2_data: init_device finds no device and raises
\* Exception('Unable to find hid device.', ...), which is no OSError: it
\* leaves read_co2_data and monitoring_CO2, and the thread ends
SrvAcquireNotFound ==
    /\ srvPc = "acquire"
    /\ srvMon = 0
    /\ srvErr' = "DeviceNotFound"
    /\ srvPc' = "crashed"
    /\ UNCHANGED <<srvMon, srvMonitoring, srvVals, srvLog, nextMon, dropped,
                   iter>>
    /\ UNCHANGED <<devVars, seqVars, monVars, thrVars, aggVars>>
    /\ UNCHANGED webVars

\* read_co2_data: return mon.read_data_raw(max_requests=1000)
SrvReadOk ==
    /\ srvPc = "read"
    /\ \E sm \in SampleSet :
         /\ srvVals' = <<sm>>
         /\ last_data' = <<sm>>
    /\ srvPc' = "log"
    /\ UNCHANGED <<srvMon, srvMonitoring, srvLog, srvErr, nextMon, dropped,
                   iter>>
    /\ UNCHANGED <<devVars, seqVars, thrVars, aggVars>>
    /\ UNCHANGED <<keep_monitoring, interval, data>>
    /\ UNCHANGED webVars

\* read_co2_data: mon.read_data_raw raises OSError; mon = None; return None
SrvReadOSError ==
    /\ srvPc = "read"
    /\ srvErr' = "OSError_read"
    /\ dropped' = dropped \cup {srvMon}
    /\ retired' = [retired EXCEPT ![srvMon] = last_data]
    /\ srvMon' = MonAfterReadError(srvMon)
    /\ srvVals' = <<>>
    /\ srvPc' = "log"
    /\ UNCHANGED <<srvMonitoring, srvLog, nextMon, iter>>
    /\ UNCHANGED <<killRes, hkPc, accMon, accSeen>>
    /\ UNCHANGED <<devVars, seqVars, monVars, thrVars, aggVars>>

\* monitoring_CO2: vals is None: logging.info('... monitor is not connected')
SrvLogNone ==
    /\ srvPc = "log"
    /\ srvVals = <<>>
    /\ srvPc' = "sleep"
    /\ UNCHANGED <<srvMon, srvMonitoring, srvVals, srvLog, srvErr, nextMon,
                   dropped, iter>>
    /\ UNCHANGED <<devVars, seqVars, monVars, thrVars, aggVars>>
    /\ UNCHANGED webVars

\* monitoring_CO2: logging.info(... % tuple(vals)); write_to_log(vals)
SrvLogSample ==
    /\ srvPc = "log"
    /\ srvVals # <<>>
    /\ SampleFormats(srvVals[1])
    /\ srvLog' = Append(srvLog, srvVals[1])
    /\ srvPc' = "sleep"
    /\ UNCHANGED <<srvMon, srvMonitoring, srvVals, srvErr, nextMon, dropped,
                   iter>>
    /\ UNCHANGED <<devVars, seqVars, monVars, thrVars, aggVars>>
    /\ UNCHANGED webVars

\* monitoring_CO2: the format of logging.info raises TypeError on a None
\* field; nothing catches it and the thread ends
SrvLogTypeError ==
    /\ srvPc = "log"
    /\ srvVals # <<>>
    /\ ~SampleFormats(srvVals[1])
    /\ srvErr' = "TypeError"
    /\ srvPc' = "crashed"
    /\ UNCHANGED <<srvMon, srvMonitoring, srvVals, srvLog, nextMon, dropped,
                   iter>>
    /\ UNCHANGED <<devVars, seqVars, monVars, thrVars, aggVars>>
    /\ UNCHANGED webVars

\* monitoring_CO2: time.sleep(interval) returns
SrvSleep ==
    /\ srvPc = "sleep"
    /\ srvPc' = "loop"
    /\ iter' = iter + 1
    /\ UNCHANGED <<srvMon, srvMonitoring, srvVals, srvLog, srvErr, nextMon,
                   dropped>>
    /\ UNCHANGED <<devVars, seqVars, monVars, thrVars, aggVars>>
    /\ UNCHANGED webVars

\* shutdown(): "server_stop()" names a function the module does not define
\* (line 460 defines stop_server), so the handler ends with NameError
\* before "_monitoring = False"; flag is _monitoring when it is called
KillOutcome(flag) == [res |-> "NameError", flag |-> flag]

\* a request of the /kill route: shutdown()
SrvKill ==
    /\ killRes = "none"
    /\ killRes' = KillOutcome(srvMonitoring).res
    /\ srvMonitoring' = KillOutcome(srvMonitoring).flag
    /\ UNCHANGED <<srvMon, srvPc, srvVals, srvLog, srvErr, nextMon, dropped,
                   iter>>
    /\ UNCHANGED <<retired, hkPc, accMon, accSeen>>
    /\ UNCHANGED <<devVars, seqVars, monVars, thrVars, aggVars>>

\* start_monitor() has set _monitoring and started the thread
SrvInit ==
    /\ srvMon = 0
    /\ srvMonitoring = TRUE
    /\ srvPc = "loop"
    /\ srvVals = <<>>
    /\ srvLog = <<>>
    /\ srvErr = "none"
    /\ nextMon = 0
    /\ dropped = {}
    /\ iter = 0
    /\ WebIdle
    /\ DevInit /\ SeqIdle /\ MonInit /\ ThrIdle /\ AggIdle

SrvNext ==
    \/ SrvLoopEnter
    \/ SrvAcquireKeep \/ SrvAcquireNew \/ SrvAcquireOSError
    \/ SrvAcquireNotFound
    \/ SrvReadOk \/ SrvReadOSError
    \/ SrvLogNone \/ SrvLogSample \/ SrvLogTypeError
    \/ SrvSleep \/ SrvKill

SpecSrv == SrvInit /\ [][SrvNext]_vars

\* C5: while _monitoring is true the loop of monitoring_CO2 has not been
\* ended by a failure to acquire the session or to read a sample.
C5_LoopSurvivesFailures ==
    srvMonitoring => ~(srvPc = "crashed" /\ srvErr = "DeviceNotFound")

\* C6: a read that fails with OSError drops the session and hands nothing
\* to the log in that iteration, and every read is made on a monitor no
\* read of which has failed, constructed after the failure.
C6_DropAndReconnect ==
    /\ [][(srvPc = "read" /\ srvErr' = "OSError_read")
            => (srvMon' = 0 /\ srvVals' = <<>> /\ srvLog' = srvLog)]_vars
    /\ [][(srvErr = "OSError_read" /\ srvErr' = "OSError_read")
            => (srvLog' = srvLog /\ srvMon' = 0)]_vars
    /\ [](srvPc = "read" => (srvMon # 0 /\ srvMon \notin dropped))

\* C6 witness: after a failed read, the next iteration has constructed a
\* new monitor and is about to read from it.
C6_Witness ==
    /\ srvPc = "read"
    /\ dropped # {}
    /\ srvMon # 0 /\ srvMon \notin dropped

\* C8: a partial sample handed to logging and write_to_log raises no
\* error, and the loop goes on.
C8_PartialAbsorbed ==
    (srvVals # <<>> /\ ~BothObserved(srvVals[1][1], srvVals[1][2]))
        => srvPc # "crashed"

\* C33: once a /kill request has been handled, _monitoring is false.
C33_KillClearsFlag == killRes # "none" => ~srvMonitoring

(**************************************************************************)
(* The combined server + HomeKit mode: monitoring_CO2 and the thread of   *)
(* init_homekit_target, which becomes the accessory's run loop.           *)
(**************************************************************************)
\* monitor._last_data of the CO2monitor object m, current or dropped
LastDataOf(m) == IF m = srvMon THEN last_data ELSE retired[m]

\* start_server_homekit: start_monitor() and init_homekit() have started
\* their threads
HkInit ==
    /\ srvMon = 0
    /\ srvMonitoring = TRUE
    /\ srvPc = "loop"
    /\ srvVals = <<>>
    /\ srvLog = <<>>
    /\ srvErr = "none"
    /\ nextMon = 0
    /\ dropped = {}
    /\ iter = 0
    /\ killRes = "none"
    /\ retired = [m \in 1..MaxIter |-> <<>>]
    /\ hkPc = "wait"
    /\ accMon = 0
    /\ accSeen = <<None, None>>
    /\ DevInit /\ SeqIdle /\ MonInit /\ ThrIdle /\ AggIdle

\* init_homekit_target: "while mon is None" finds a monitor (while it finds
\* none it sleeps and tests again)
HkConnected ==
    /\ hkPc = "wait"
    /\ srvMon # 0
    /\ hkPc' = "start"
    /\ UNCHANGED <<accMon, accSeen, killRes, retired>>
    /\ UNCHANGED <<srvMon, srvMonitoring, srvPc, srvVals, srvLog, srvErr,
                   nextMon, dropped, iter>>
    /\ UNCHANGED <<devVars, seqVars, monVars, thrVars, aggVars>>

\* start_homekit(mon, monitoring=False, ...): the global is read again and
\* CO2Accessory.__init__ keeps the object: self.monitor = mon
HkStart ==
    /\ hkPc = "start"
    /\ srvMon # 0
    /\ accMon' = srvMon
    /\ hkPc' = "run"
    /\ UNCHANGED <<accSeen, killRes, retired>>
    /\ UNCHANGED <<srvMon, srvMonitoring, srvPc, srvVals, srvLog, srvErr,
                   nextMon, dropped, iter>>
    /\ UNCHANGED <<devVars, seqVars, monVars, thrVars, aggVars>>

\* start_homekit(mon, ...) when a failed read has set mon to None since the
\* test: CO2Accessory.__init__ raises ValueError
HkStartNone ==
    /\ hkPc = "start"
    /\ srvMon = 0
    /\ hkPc' = "ValueError"
    /\ UNCHANGED <<accMon, accSeen, killRes, retired>>
    /\ UNCHANGED <<srvMon, srvMonitoring, srvPc, srvVals, srvLog, srvErr,
                   nextMon, dropped, iter>>
    /\ UNCHANGED <<devVars, seqVars, monVars, thrVars, aggVars>>

\* CO2Accessory._read_and_set with monitoring false, called by run every
\* self.frequency seconds: vals = self.monitor._last_data (return when the
\* attribute is not set), then the three set_value calls; a None field
\* raises at line 105 or 106 and ends run
HkReadAndSet ==
    /\ hkPc = "run"
    /\ LET v == LastDataOf(accMon)
       IN  IF v = <<>>
           THEN UNCHANGED <<hkPc, accSeen>>
           ELSE IF v[1][1] = None
           THEN hkPc' = "TypeError" /\ UNCHANGED accSeen
           ELSE IF v[1][2] = None
           THEN hkPc' = "TypeError" /\ accSeen' = <<v[1][1], accSeen[2]>>
           ELSE accSeen' = v[1] /\ UNCHANGED hkPc
    /\ UNCHANGED <<accMon, killRes, retired>>
    /\ UNCHANGED <<srvMon, srvMonitoring, srvPc, srvVals, srvLog, srvErr,
                   nextMon, dropped, iter>>
    /\ UNCHANGED <<devVars, seqVars, monVars, thrVars, aggVars>>

HkNext ==
    \/ SrvNext
    \/ HkConnected \/ HkStart \/ HkStartNone \/ HkReadAndSet

SpecHk == HkInit /\ [][HkNext]_vars

\* C32: whenever the accessory runs and the server holds a monitor, the
\* accessory's monitor is that monitor, and so what _read_and_set reads is
\* what the loop wrote last.
C32_AccessoryReadsCurrentMonitor ==
    (hkPc = "run" /\ srvMon # 0) =>
        (accMon = srvMon /\ LastDataOf(accMon) = last_data)

(**************************************************************************)
(* Specification of the aggregator: one call on any frame source.         *)
(**************************************************************************)
AggInit ==
    /\ bypass_decrypt \in BOOLEAN
    /\ max_requests \in 0..MaxReq
    /\ aggPc = "loop"
    /\ ii = 0
    /\ co2 = None
    /\ temp = None
    /\ seen = <<>>
    /\ CodecIdle
    /\ DevInit
    /\ SeqIdle
    /\ MonInit
    /\ ThrIdle
    /\ SrvIdle

\* for ii in range(max_requests): one pass of the body
AggRead ==
    /\ aggPc = "loop"
    /\ InRange(ii, max_requests)
    /\ \E raw \in FramePool :
         LET d == DecodeMessage(HidRead(bypass_decrypt, raw))
             n == AggUpdate(co2, temp, d)
         IN  /\ co2' = n[1]
             /\ temp' = n[2]
             /\ seen' = Append(seen, raw)
             /\ ii' = ii + 1
             /\ aggPc' = IF BothObserved(n[1], n[2]) THEN "done" ELSE "loop"
    /\ UNCHANGED <<bypass_decrypt, max_requests, codecVars>>
    /\ UNCHANGED <<devVars, seqVars, monVars, thrVars, srvVars>>

\* range(max_requests) is exhausted: return now(), co2, temp
AggExhausted ==
    /\ aggPc = "loop"
    /\ ~InRange(ii, max_requests)
    /\ aggPc' = "done"
    /\ UNCHANGED <<bypass_decrypt, max_requests, ii, co2, temp, seen,
                   codecVars>>
    /\ UNCHANGED <<devVars, seqVars, monVars, thrVars, srvVars>>

AggNext == AggRead \/ AggExhausted

SpecAgg == AggInit /\ [][AggNext]_vars

\* what the i-th frame read by the call decodes to
SeenDecoded(i) == DecodeMessage(HidRead(bypass_decrypt, seen[i]))

\* a CO2 (a temperature) reading is among the first k frames read
Co2By(k) == \E i \in 1..k : SeenDecoded(i)[1] # None
TempBy(k) == \E i \in 1..k : SeenDecoded(i)[2] # None

\* C9: when the call has returned and k is the index of the first frame
\* after which both a CO2 and a temperature reading were observed, the call
\* made exactly k reads and both fields of the sample are populated.
C9_StopsAtFirstComplete ==
    aggPc = "done" =>
        \A k \in 1..Len(seen) :
            (/\ Co2By(k) /\ TempBy(k)
             /\ \A j \in 1..(k - 1) : ~(Co2By(j) /\ TempBy(j)))
            => (ii = k /\ k <= max_requests /\ co2 # None /\ temp # None)

\* C9 witness: CO2 then temperature with a budget of MaxReq: the call has
\* returned after 2 reads with both fields populated.
C9_Witness ==
    /\ aggPc = "done" /\ ~bypass_decrypt
    /\ max_requests = MaxReq /\ ii = 2
    /\ seen = <<FrameCO2Enc, FrameTempEnc>>
    /\ co2 = Some(400) /\ temp # None

\* C10: when the call has returned and one kind of reading did not occur
\* among the frames of its budget, it made exactly max_requests reads, and
\* each field is absent exactly if its kind was never observed.
C10_PartialAfterBudget ==
    (aggPc = "done" /\ ~(Co2By(Len(seen)) /\ TempBy(Len(seen))))
        => /\ ii = max_requests
           /\ Len(seen) = max_requests
           /\ (co2 = None) <=> ~Co2By(Len(seen))
           /\ (temp = None) <=> ~TempBy(Len(seen))

\* C10 witness: a source that only emits CO2: the call has returned after
\* MaxReq reads with co2 populated and temperature absent.
C10_Witness ==
    /\ aggPc = "done" /\ max_requests = MaxReq /\ ii = MaxReq
    /\ \A i \in 1..Len(seen) : SeenDecoded(i)[1] # None
    /\ co2 # None /\ temp = None

\* the checksum law: the sum of bytes 0..2 modulo 256 in byte 3, the end
\* marker 0x0D in byte 4, zeros in bytes 5..7
ValidRecord(msg) ==
    /\ msg[4] = (msg[1] + msg[2] + msg[3]) % 256
    /\ msg[5] = 13
    /\ msg[6] = 0 /\ msg[7] = 0 /\ msg[8] = 0

\* the frames read so far that carried a reading of kind f (1: CO2,
\* 2: temperature), and the value of the last of them
ReadingsAt(f) == {i \in 1..Len(seen) : SeenDecoded(i)[f] # None}
LastSeen(f) ==
    IF ReadingsAt(f) = {} THEN None
    ELSE SeenDecoded(CHOOSE i \in ReadingsAt(f) :
                        \A j \in ReadingsAt(f) : j <= i)[f]

\* C11: at every point of the call, and so in the sample it returns, the CO2
\* field is the value of the last CO2 frame read and the temperature field
\* the value of the last temperature frame read (absent if there was none):
\* a later reading of a kind overwrites, and no other frame clears a field.
C11_LastValueWins == co2 = LastSeen(1) /\ temp = LastSeen(2)

\* C11 witness: CO2 400, then CO2 0, then a frame with a wrong checksum: the
\* call has returned with CO2 0.
C11_Witness ==
    /\ aggPc = "done" /\ ~bypass_decrypt
    /\ seen = <<FrameCO2Enc, FrameCO2ZeroEnc, FrameBadSumEnc>>
    /\ co2 = Some(0) /\ temp = None

\* C12: a pass of the loop that reads a frame failing the checksum law leaves
\* both fields as they were, as a frame with an unknown code does, and the
\* loop goes on.
C12_MalformedSkipped ==
    [][(/\ aggPc = "loop" /\ ii' = ii + 1
        /\ ~ValidRecord(HidRead(bypass_decrypt, seen'[ii'])))
        => /\ co2' = co2 /\ temp' = temp
           /\ <<co2', temp'>> =
                  AggUpdate(co2, temp, DecodeMessage(FrameUnknownPlain))
           /\ aggPc' = "loop"]_vars

\* C12 witness: CO2, then a frame with a wrong end marker, then temperature:
\* the call went on after the malformed frame and returned a full sample.
C12_Witness ==
    /\ aggPc = "done" /\ ~bypass_decrypt /\ ii = 3
    /\ seen = <<FrameCO2ZeroEnc, FrameBadEndEnc, FrameTempEnc>>
    /\ co2 = Some(0) /\ temp # None

\* every call of _read_co2_temp runs on: hid_read returns
FairSpecAgg == SpecAgg /\ WF_vars(AggNext)

\* C13: the call never makes more than max_requests reads, it returns, and
\* with max_requests = 0 it reads nothing and both fields stay absent.
C13_BoundedReads ==
    /\ [](/\ ii <= max_requests
          /\ Len(seen) = ii
          /\ max_requests = 0 => (ii = 0 /\ co2 = None /\ temp = None))
    /\ <>(aggPc = "done")

\* C13 witness: with max_requests = 0 the call has returned without a read.
C13_Witness ==
    /\ aggPc = "done" /\ max_requests = 0 /\ ii = 0 /\ seen = <<>>
    /\ co2 = None /\ temp = None

(**************************************************************************)
(* Specification of the codec: _decrypt, hid_read and decode_message      *)
(* applied once to a frame.                                               *)
(**************************************************************************)
\* bytes the records handed to decode_message are built from
CodeBytes == {80, 66, 65}
HighBytes == {0, 18, 255}
LowBytes == {0, 81, 85, 255}
EndBytes == {13, 10}
TailBytes == {0, 1}
\* records with a right or a wrong checksum, end marker and tail
RecordSet ==
    {<<c, h, l, (c + h + l + d) % 256, e, t1, t2, t3>> :
        c \in CodeBytes, h \in HighBytes, l \in LowBytes, d \in {0, 1},
        e \in EndBytes, t1 \in TailBytes, t2 \in TailBytes, t3 \in TailBytes}

\* bytes the raw frames handed to _decrypt are built from
RawBytes == {0, 7, 255}
RawSet ==
    {<<b1, b2, b3, b4, b5, b6, b7, b8>> :
        b1 \in RawBytes, b2 \in RawBytes, b3 \in RawBytes, b4 \in RawBytes,
        b5 \in RawBytes, b6 \in RawBytes, b7 \in RawBytes, b8 \in RawBytes}

CodecFrames == RecordSet \cup RawSet \cup FramePool

CodecInit ==
    /\ frame \in CodecFrames
    /\ bypass_decrypt \in BOOLEAN
    /\ codecPc = "start"
    /\ plain = <<>>
    /\ decoded = <<>>
    /\ max_requests = 0
    /\ aggPc = "idle"
    /\ ii = 0
    /\ co2 = None
    /\ temp = None
    /\ seen = <<>>
    /\ DevInit
    /\ SeqIdle
    /\ MonInit
    /\ ThrIdle
    /\ SrvIdle

\* self._decrypt(frame)
CodecDecrypt ==
    /\ codecPc = "start"
    /\ plain' = Decrypt(bypass_decrypt, frame)
    /\ codecPc' = "_decrypt"
    /\ UNCHANGED <<frame, decoded>>
    /\ UNCHANGED <<bypass_decrypt, max_requests, aggPc, ii, co2, temp, seen>>
    /\ UNCHANGED <<devVars, seqVars, monVars, thrVars, srvVars>>

\* CO2monitor.decode_message(frame)
CodecDecode ==
    /\ codecPc = "start"
    /\ decoded' = DecodeMessage(frame)
    /\ codecPc' = "decode_message"
    /\ UNCHANGED <<frame, plain>>
    /\ UNCHANGED <<bypass_decrypt, max_requests, aggPc, ii, co2, temp, seen>>
    /\ UNCHANGED <<devVars, seqVars, monVars, thrVars, srvVars>>

\* self.hid_read() when the handle returns frame
CodecHidRead ==
    /\ codecPc = "start"
    /\ plain' = HidRead(bypass_decrypt, frame)
    /\ codecPc' = "hid_read"
    /\ UNCHANGED <<frame, decoded>>
    /\ UNCHANGED <<bypass_decrypt, max_requests, aggPc, ii, co2, temp, seen>>
    /\ UNCHANGED <<devVars, seqVars, monVars, thrVars, srvVars>>

\* self.decode_message(self.hid_read()): the second half
CodecDecodeRead ==
    /\ codecPc = "hid_read"
    /\ decoded' = DecodeMessage(plain)
    /\ codecPc' = "read_decoded"
    /\ UNCHANGED <<frame, plain>>
    /\ UNCHANGED <<bypass_decrypt, max_requests, aggPc, ii, co2, temp, seen>>
    /\ UNCHANGED <<devVars, seqVars, monVars, thrVars, srvVars>>

CodecNext == CodecDecrypt \/ CodecDecode \/ CodecHidRead \/ CodecDecodeRead

SpecCodec == CodecInit /\ [][CodecNext]_vars

\* the 16-bit value of a record: 256 * byte1 + byte2
RawValue(msg) == 256 * msg[2] + msg[3]

\* C14: decode_message yields (None, None) for every record that violates
\* the checksum law, yields a reading for every record that satisfies it
\* with byte0 0x50 or 0x42, and yields a reading only for records that
\* satisfy it.
C14_ChecksumLaw ==
    codecPc = "decode_message" =>
        /\ ~ValidRecord(frame) => decoded = <<None, None>>
        /\ (ValidRecord(frame) /\ frame[1] \in {80, 66})
              => decoded # <<None, None>>
        /\ decoded # <<None, None>> => ValidRecord(frame)

\* C14 witness: a CO2 record whose only fault is its checksum was decoded to
\* (None, None).
C14_Witness ==
    /\ codecPc = "decode_message"
    /\ frame = <<80, 18, 85, 184, 13, 0, 0, 0>>
    /\ decoded = <<None, None>>

\* C15: for a valid record byte0 decides the kind: 0x50 gives the CO2 value
\* 256*byte1 + byte2 in 0..65535 and no temperature, 0x42 gives a
\* temperature and no CO2, every other byte0 gives (None, None); and no
\* record gives both a CO2 and a temperature value.
C15_OneKindByCode ==
    codecPc = "decode_message" =>
        /\ ~(decoded[1] # None /\ decoded[2] # None)
        /\ ValidRecord(frame) =>
              /\ frame[1] = 80 =>
                    /\ decoded = <<Some(RawValue(frame)), None>>
                    /\ decoded[1][1] \in 0..65535
              /\ frame[1] = 66 => (decoded[1] = None /\ decoded[2] # None)
              /\ frame[1] \notin {80, 66} => decoded = <<None, None>>

\* C15 witness: the valid CO2 record with value bytes 18, 85 was decoded to
\* 4693 ppm and no temperature.
C15_Witness ==
    /\ codecPc = "decode_message"
    /\ frame = <<80, 18, 85, 183, 13, 0, 0, 0>>
    /\ decoded = <<Some(4693), None>>

\* C16 as stated: a valid temperature record with raw value V decodes to
\* V*0.0625 - 273.15 degrees Celsius (here in 1/10000 degree), and V = 4693
\* gives 19.9125.
C16_TemperatureAsStated ==
    (codecPc = "decode_message" /\ ValidRecord(frame) /\ frame[1] = 66) =>
        /\ decoded = <<None, Some(RawValue(frame) * 625 - 2731500)>>
        /\ RawValue(frame) = 4693 => decoded[2] = Some(199125)

\* C16 amended: a valid temperature record with raw value V decodes to
\* V*0.0625 - 273.15 degrees Celsius; V = 4693 gives 20.1625, and 19.9125
\* is what V = 4689 gives.
C16_TemperatureFormula ==
    (codecPc = "decode_message" /\ ValidRecord(frame) /\ frame[1] = 66) =>
        /\ decoded = <<None, Some(RawValue(frame) * 625 - 2731500)>>
        /\ RawValue(frame) = 4693 => decoded[2] = Some(201625)
        /\ RawValue(frame) = 4689 => decoded[2] = Some(199125)

\* C16 witness: the temperature record with raw value 4693 was decoded to
\* 20.1625 degrees.
C16_Witness ==
    /\ codecPc = "decode_message"
    /\ frame = FrameTempPlain
    /\ RawValue(frame) = 4693
    /\ decoded = <<None, Some(201625)>>

\* The reference pipeline of the transcoder, on bits.  A 64-bit word is a
\* sequence of 64 bits, most significant first.
BitOf(byte, k) == (byte \div (2 ^ (8 - k))) % 2
RefPermutation == <<2, 4, 0, 7, 1, 6, 5, 3>>
RefWord(bytes) ==
    [n \in 1..64 |-> BitOf(bytes[((n - 1) \div 8) + 1], ((n - 1) % 8) + 1)]
RefReorder(raw) == [i \in 1..8 |-> raw[RefPermutation[i] + 1]]
RefXor(x, y) == [n \in 1..64 |-> (x[n] + y[n]) % 2]
RefRotate(x) == [n \in 1..64 |-> x[((n + 60) % 64) + 1]]
RefByte(x, i) ==
    LET b(k) == x[8 * (i - 1) + k]
    IN  128 * b(1) + 64 * b(2) + 32 * b(3) + 16 * b(4)
          + 8 * b(5) + 4 * b(6) + 2 * b(7) + b(8)
RefSwapped(w) == 16 * (w % 16) + (w \div 16)
RefDecrypt(raw) ==
    LET word == RefRotate(RefXor(RefWord(RefReorder(raw)),
                                 RefWord(<<0, 0, 0, 0, 0, 0, 0, 0>>)))
        key == <<72, 116, 101, 109, 112, 57, 57, 101>>
    IN  [i \in 1..8 |-> (RefByte(word, i) + 256 - RefSwapped(key[i])) % 256]

\* C17: with bypass_decrypt false, _decrypt returns 8 bytes in 0..255 that
\* equal the reference pipeline applied to the raw frame.
C17_DecryptIsReference ==
    (codecPc = "_decrypt" /\ ~bypass_decrypt) =>
        /\ Len(plain) = 8
        /\ \A i \in 1..8 : plain[i] \in 0..255
        /\ plain = RefDecrypt(frame)

\* C17 witness: the encrypted frame of CO2 = 400 ppm was decrypted to its
\* plaintext record.
C17_Witness ==
    /\ codecPc = "_decrypt" /\ ~bypass_decrypt
    /\ frame = FrameCO2Enc
    /\ plain = FrameCO2Plain

\* C18: with bypass_decrypt true, _decrypt and hid_read return the frame
\* they were given, unchanged.
C18_BypassIsIdentity ==
    (bypass_decrypt /\ codecPc \in {"_decrypt", "hid_read"}) => plain = frame

\* C18 witness: with bypass_decrypt true hid_read has returned the plaintext
\* CO2 record the handle delivered.
C18_Witness ==
    /\ bypass_decrypt /\ codecPc = "hid_read"
    /\ frame = FrameCO2Plain
    /\ plain = FrameCO2Plain

(**************************************************************************)
(* Specification of init_device: one call on any enumeration.             *)
(**************************************************************************)
\* the paths of the attached interfaces, and a path no interface has
Paths == {"p1", "p2"}
NoSuchPath == "p3"

\* what hid.enumerate can return: up to MaxDev interfaces
Enumerations == UNION {[1..n -> Paths] : n \in 0..MaxDev}

\* mutant: every interface is taken as a match
InterfaceMatchesAny(wanted, path) == TRUE

\* "if interface_path is None or interface['path'] == interface_path"
InterfaceMatches(wanted, path) == wanted = None \/ Some(path) = wanted

IdInit ==
    /\ enumerated \in Enumerations
    /\ interface_path \in {None} \cup {Some(p) : p \in Paths \cup {NoSuchPath}}
    /\ initPc = "loop"
    /\ checked_interfaces = <<>>
    /\ info_path = None
    /\ init_error = <<>>
    /\ CallIdle
    /\ scopes = 0
    /\ entered = <<>>
    /\ nCalls = 0
    /\ lastCall = [op |-> "none", flag |-> FALSE, raised |-> FALSE]
    /\ DevInit
    /\ MonInit
    /\ ThrIdle
    /\ SrvIdle
    /\ AggIdle

\* a pass of the for loop on an interface that matches: it is selected
IdSelect ==
    /\ initPc = "loop"
    /\ Len(checked_interfaces) < Len(enumerated)
    /\ LET path == enumerated[Len(checked_interfaces) + 1]
       IN  /\ InterfaceMatches(interface_path, path)
           /\ info_path' = Some(path)
    /\ initPc' = "returned"
    /\ UNCHANGED <<enumerated, interface_path, checked_interfaces, init_error>>
    /\ UNCHANGED <<scopes, entered, nCalls, lastCall, callVars>>
    /\ UNCHANGED <<devVars, monVars, thrVars, aggVars, srvVars>>

\* a pass of the for loop on an interface that does not match
IdSkip ==
    /\ initPc = "loop"
    /\ Len(checked_interfaces) < Len(enumerated)
    /\ LET path == enumerated[Len(checked_interfaces) + 1]
       IN  /\ ~InterfaceMatches(interface_path, path)
           /\ checked_interfaces' = Append(checked_interfaces, path)
    /\ UNCHANGED <<enumerated, interface_path, initPc, info_path, init_error>>
    /\ UNCHANGED <<scopes, entered, nCalls, lastCall, callVars>>
    /\ UNCHANGED <<devVars, monVars, thrVars, aggVars, srvVars>>

\* the enumeration is exhausted: raise Exception('Unable to find hid
\* device.', interface_path, checked_interfaces)
IdRaise ==
    /\ initPc = "loop"
    /\ Len(checked_interfaces) = Len(enumerated)
    /\ init_error' = <<interface_path, checked_interfaces>>
    /\ initPc' = "raised"
    /\ UNCHANGED <<enumerated, interface_path, checked_interfaces, info_path>>
    /\ UNCHANGED <<scopes, entered, nCalls, lastCall, callVars>>
    /\ UNCHANGED <<devVars, monVars, thrVars, aggVars, srvVars>>

IdNext == IdSelect \/ IdSkip \/ IdRaise

SpecInitDevice == IdInit /\ [][IdNext]_vars

\* the i-th enumerated interface is the one asked for
Wanted(i) ==
    interface_path = None \/ interface_path = Some(enumerated[i])

\* C24: a call that returns has selected the first enumerated interface that
\* is asked for (the first of all when no path is requested), and a call
\* raises exactly when no enumerated interface is asked for, with an error
\* that carries the requested path and all enumerated interfaces, in order.
C24_SelectsFirstMatch ==
    /\ initPc = "returned" =>
          \E i \in 1..Len(enumerated) :
              /\ info_path = Some(enumerated[i])
              /\ Wanted(i)
              /\ \A j \in 1..(i - 1) : ~Wanted(j)
              /\ interface_path = None => i = 1
    /\ initPc = "raised" =>
          /\ \A i \in 1..Len(enumerated) : ~Wanted(i)
          /\ init_error = <<interface_path, enumerated>>
          /\ info_path = None
    /\ (initPc = "loop" /\ Len(checked_interfaces) < Len(enumerated))
          => \A j \in 1..Len(checked_interfaces) : ~Wanted(j)

\* C24 witness: with two interfaces and the second one's path requested, the
\* call has returned with the second selected.
C24_Witness ==
    /\ initPc = "returned"
    /\ enumerated = <<"p1", "p2">>
    /\ interface_path = Some("p2")
    /\ info_path = Some("p2")
    /\ checked_interfaces = <<"p1">>

(**************************************************************************)
(* Specification of hid_read on what the OS read delivers: 8 bytes, fewer *)
(* than 8 bytes, or a failure.                                            *)
(**************************************************************************)
\* a plaintext CO2 record followed by non-zero bytes
FrameTailPlain == <<80, 1, 144, 225, 13, 1, 1, 1>>

\* what self._h.read(8) can return: a frame or the first n < 8 bytes of one
ShortFrames ==
    {SubSeq(f, 1, n) : f \in FramePool \cup {FrameTailPlain}, n \in 0..7}
OsReads == ShortFrames \cup FramePool

\* _decrypt: message[i] for i in [2, 4, 0, 7, 1, 6, 5, 3] raises IndexError
DecryptIndexError(bypass, message) == ~bypass /\ Len(message) < 8

\* decode_message: msg[5], msg[6], msg[7] are read in this order, until one
\* is non-zero; a missing one raises IndexError
DecodeIndexError(msg) ==
    \/ Len(msg) < 6
    \/ Len(msg) = 6 /\ msg[6] = 0
    \/ Len(msg) = 7 /\ msg[6] = 0 /\ msg[7] = 0

HrInit ==
    /\ frame \in OsReads
    /\ bypass_decrypt \in BOOLEAN
    /\ codecPc = "os_read"
    /\ plain = <<>>
    /\ decoded = <<>>
    /\ max_requests = 0
    /\ aggPc = "idle"
    /\ ii = 0
    /\ co2 = None
    /\ temp = None
    /\ seen = <<>>
    /\ DevInit
    /\ SeqIdle
    /\ MonInit
    /\ ThrIdle
    /\ SrvIdle

\* msg = self._h.read(8) returns frame
HrReadReturns ==
    /\ codecPc = "os_read"
    /\ codecPc' = "_decrypt_call"
    /\ UNCHANGED <<frame, plain, decoded>>
    /\ UNCHANGED <<bypass_decrypt, max_requests, aggPc, ii, co2, temp, seen>>
    /\ UNCHANGED <<devVars, seqVars, monVars, thrVars, srvVars>>

\* self._h.read(8) raises OSError, which leaves hid_read
HrReadRaises ==
    /\ codecPc = "os_read"
    /\ codecPc' = "OSError"
    /\ UNCHANGED <<frame, plain, decoded>>
    /\ UNCHANGED <<bypass_decrypt, max_requests, aggPc, ii, co2, temp, seen>>
    /\ UNCHANGED <<devVars, seqVars, monVars, thrVars, srvVars>>

\* return self._decrypt(msg): hid_read returns plain, or IndexError leaves it
HrDecrypt ==
    /\ codecPc = "_decrypt_call"
    /\ IF DecryptIndexError(bypass_decrypt, frame)
       THEN codecPc' = "IndexError" /\ plain' = plain
       ELSE codecPc' = "hid_read" /\ plain' = Decrypt(bypass_decrypt, frame)
    /\ UNCHANGED <<frame, decoded>>
    /\ UNCHANGED <<bypass_decrypt, max_requests, aggPc, ii, co2, temp, seen>>
    /\ UNCHANGED <<devVars, seqVars, monVars, thrVars, srvVars>>

\* self.decode_message(...) on what hid_read returned (_read_co2_temp)
HrDecode ==
    /\ codecPc = "hid_read"
    /\ IF DecodeIndexError(plain)
       THEN codecPc' = "IndexError_decode" /\ decoded' = decoded
       ELSE /\ codecPc' = "read_decoded"
            /\ decoded' = IF Len(plain) < 8 THEN <<None, None>>
                           ELSE DecodeMessage(plain)
    /\ UNCHANGED <<frame, plain>>
    /\ UNCHANGED <<bypass_decrypt, max_requests, aggPc, ii, co2, temp, seen>>
    /\ UNCHANGED <<devVars, seqVars, monVars, thrVars, srvVars>>

HrNext == HrReadReturns \/ HrReadRaises \/ HrDecrypt \/ HrDecode

SpecHidRead == HrInit /\ [][HrNext]_vars

\* C22: hid_read never returns fewer than 8 bytes, a read of fewer than 8
\* bytes ends hid_read with a device I/O error (OSError), and the decoder is
\* never given fewer than 8 bytes.
C22_ShortReadIsIOError ==
    /\ codecPc = "hid_read" => Len(plain) = 8
    /\ (Len(frame) < 8 /\ codecPc \notin {"os_read", "_decrypt_call"})
          => codecPc = "OSError"
    /\ codecPc \in {"read_decoded", "IndexError_decode"} => Len(plain) = 8

=============================================================================
